---- MODULE Spec2Model ----
(***************************************************************************)
(* Model of tradfri-codec.js: the codec bundle returned by init, its four  *)
(* per-property encode/decode pairs (on, brightness, colorTemperature,     *)
(* RGB) and the two generic functions of the bundle.  The codec keeps no   *)
(* state of its own; the state below is the host's view of one call after  *)
(* another: the value handed to the last encode, the JSON message in       *)
(* flight, and what the last call returned, logged or delivered.           *)
(***************************************************************************)
EXTENDS Integers, Sequences, FiniteSets, TLC

VARIABLES op, sent, origin, wire, wireFrom, result, convCalls, logged, entry, given, delivered, threw

vars == <<op, sent, origin, wire, wireFrom, result, convCalls, logged, entry, given, delivered, threw>>

(***************************************************************************)
(* JavaScript values.  A value is a record of its type tag t, its number   *)
(* n, its string s (a sequence of characters) and, for an object, the      *)
(* properties x, y, r, g, b (simple values); a property an object lacks,   *)
(* and any property of a primitive, reads as undefined.                    *)
(***************************************************************************)
SUndef == [t |-> "undefined", n |-> 0, s |-> <<>>]

Prim(t, n, s) ==
  [t |-> t, n |-> n, s |-> s,
   x |-> SUndef, y |-> SUndef, r |-> SUndef, g |-> SUndef, b |-> SUndef]

Undef == Prim("undefined", 0, <<>>)

Null == Prim("null", 0, <<>>)

Bool(v) == Prim("boolean", IF v THEN 1 ELSE 0, <<>>)

Num(k) == Prim("number", k, <<>>)

Str(cs) == Prim("string", 0, cs)

\* the object literal { r: .., g: .., b: .. } of the RGB encode (no x, no y)
ObjRGB(r, g, b) ==
  [t |-> "object", n |-> 0, s |-> <<>>,
   x |-> SUndef, y |-> SUndef,
   r |-> [t |-> "number", n |-> r, s |-> <<>>],
   g |-> [t |-> "number", n |-> g, s |-> <<>>],
   b |-> [t |-> "number", n |-> b, s |-> <<>>]]

\* the empty object {}
ObjEmpty == Prim("object", 0, <<>>)

\* a property read off an object, as a value of its own
Lift(p) == Prim(p.t, p.n, p.s)

ON == <<"O", "N">>

OFF == <<"O", "F", "F">>

\* ToBoolean: undefined, null, false, 0 and "" are falsy, all else truthy
Truthy(v) ==
  CASE v.t = "undefined" -> FALSE
    [] v.t = "null" -> FALSE
    [] v.t = "boolean" -> v.n = 1
    [] v.t = "number" -> v.n # 0
    [] v.t = "string" -> v.s # <<>>
    [] OTHER -> TRUE

\* v == "<cs>" for a non-numeric string cs: true of the equal string only
\* (a number or boolean is compared with ToNumber(cs) = NaN, null and
\* undefined equal only each other, a plain object becomes "[object Object]")
LooseEqualsString(v, cs) == v.t = "string" /\ v.s = cs

(***************************************************************************)
(* JSON.  The text of a message is the sequence of its members in the      *)
(* order of the object literal; JSON.stringify leaves out a member whose   *)
(* value is undefined, and a property the parsed object lacks reads as     *)
(* undefined.  Every number the codec emits here is a finite integer,      *)
(* which the text carries exactly.                                         *)
(***************************************************************************)
EmptyObject == [state |-> Undef, brightness |-> Undef, color_temp |-> Undef, color |-> Undef]

JSON_stringify(obj) ==
  LET members == <<[k |-> "state", v |-> obj.state],
                   [k |-> "brightness", v |-> obj.brightness],
                   [k |-> "color_temp", v |-> obj.color_temp],
                   [k |-> "color", v |-> obj.color]>>
      present(m) == m.v.t # "undefined"
  IN SelectSeq(members, present)

JSON_parse(text) ==
  LET get(k) == IF \E i \in 1..Len(text) : text[i].k = k
                THEN text[CHOOSE i \in 1..Len(text) : text[i].k = k].v
                ELSE Undef
  IN [state |-> get("state"), brightness |-> get("brightness"),
      color_temp |-> get("color_temp"), color |-> get("color")]

(***************************************************************************)
(* Math.round(num / den) for den > 0: the nearest integer, a tie going up. *)
(* The quotients of the brightness and colorTemperature codecs are         *)
(* computed in doubles; on every argument of the model (0..100 times 2.54, *)
(* 0..255 over 2.54, the two linear rescales on 140..500 and on the wire   *)
(* values) the double lies on the same side of every tie as the exact      *)
(* quotient, so the exact quotient is rounded here.                        *)
(***************************************************************************)
MathRound(num, den) == (2 * num + den) \div (2 * den)

(***************************************************************************)
(* properties.on                                                           *)
(***************************************************************************)
on_encode(message) ==
  JSON_stringify([EmptyObject EXCEPT !.state = Str(IF Truthy(message) THEN ON ELSE OFF)])

\* on decode that returns the truthiness of state, not its comparison with "ON"
on_decode_truthiness(message) ==
  LET msg == JSON_parse(message)
  IN IF Truthy(msg.state) THEN Bool(Truthy(msg.state)) ELSE Undef

\* on decode without the guard on state
on_decode_unguarded(message) ==
  LET msg == JSON_parse(message)
  IN Bool(LooseEqualsString(msg.state, ON))

on_decode(message) ==
  LET msg == JSON_parse(message)
  IN IF Truthy(msg.state) THEN Bool(LooseEqualsString(msg.state, ON)) ELSE Undef

(***************************************************************************)
(* properties.brightness                                                   *)
(***************************************************************************)
\* app-side brightness is 0..100, wire-side 0..254
AppBrightnessMax == 100

\* brightness encode that emits the value unscaled
brightness_encode_unscaled(message) ==
  LET brightness == message.n
  IN JSON_stringify([EmptyObject EXCEPT
                       !.state = Str(IF brightness # 0 THEN ON ELSE OFF),
                       !.brightness = Num(brightness)])

brightness_encode(message) ==
  LET brightness == MathRound(message.n * 254, 100)
  IN JSON_stringify([EmptyObject EXCEPT
                       !.state = Str(IF brightness # 0 THEN ON ELSE OFF),
                       !.brightness = Num(brightness)])

brightness_decode(message) ==
  LET msg == JSON_parse(message)
  IN IF Truthy(msg.brightness) THEN Num(MathRound(msg.brightness.n * 100, 254)) ELSE Undef

(***************************************************************************)
(* properties.colorTemperature                                             *)
(***************************************************************************)
ikeaMax == 454

ikeaMin == 250

ikeaRange == ikeaMax - ikeaMin

zigbeeMax == 500

zigbeeMin == 140

zigbeeRange == zigbeeMax - zigbeeMin

\* colorTemperature encode with the two ranges exchanged
colorTemperature_encode_swapped(message) ==
  LET colorTemp == MathRound((message.n - zigbeeMin) * zigbeeRange, ikeaRange) + ikeaMin
  IN JSON_stringify([EmptyObject EXCEPT !.color_temp = Num(colorTemp)])

colorTemperature_encode(message) ==
  LET colorTemp == MathRound((message.n - zigbeeMin) * ikeaRange, zigbeeRange) + ikeaMin
  IN JSON_stringify([EmptyObject EXCEPT !.color_temp = Num(colorTemp)])

\* colorTemperature decode that adds the vendor minimum back
colorTemperature_decode_offset(message) ==
  LET msg == JSON_parse(message)
  IN IF Truthy(msg.color_temp)
     THEN Num(MathRound((msg.color_temp.n - ikeaMin) * zigbeeRange, ikeaRange) + ikeaMin)
     ELSE Undef

\* colorTemperature decode that truncates (Math.floor for Math.round)
colorTemperature_decode_floor(message) ==
  LET msg == JSON_parse(message)
  IN IF Truthy(msg.color_temp)
     THEN Num(((msg.color_temp.n - ikeaMin) * zigbeeRange) \div ikeaRange + zigbeeMin)
     ELSE Undef

colorTemperature_decode(message) ==
  LET msg == JSON_parse(message)
  IN IF Truthy(msg.color_temp)
     THEN Num(MathRound((msg.color_temp.n - ikeaMin) * zigbeeRange, ikeaRange) + zigbeeMin)
     ELSE Undef

(***************************************************************************)
(* Strings of decimal digits: String.prototype.split on a separator,       *)
(* ToNumber of a digit string, Array.prototype.join of numbers.            *)
(***************************************************************************)
Digits == <<"0", "1", "2", "3", "4", "5", "6", "7", "8", "9">>

DigitValue(c) == (CHOOSE i \in 1..Len(Digits) : Digits[i] = c) - 1

RECURSIVE StringSplit(_, _)
StringSplit(cs, sep) ==
  IF \A i \in 1..Len(cs) : cs[i] # sep
  THEN <<cs>>
  ELSE LET i == CHOOSE j \in 1..Len(cs) : cs[j] = sep /\ \A k \in 1..(j - 1) : cs[k] # sep
       IN <<SubSeq(cs, 1, i - 1)>> \o StringSplit(SubSeq(cs, i + 1, Len(cs)), sep)

\* ToNumber of a string of decimal digits (the empty string is 0)
RECURSIVE ToNumber(_)
ToNumber(cs) ==
  IF cs = <<>> THEN 0
  ELSE 10 * ToNumber(SubSeq(cs, 1, Len(cs) - 1)) + DigitValue(cs[Len(cs)])

\* ToString of a non-negative integer
RECURSIVE NumberToString(_)
NumberToString(k) ==
  IF k < 10 THEN <<Digits[k + 1]>>
  ELSE NumberToString(k \div 10) \o <<Digits[(k % 10) + 1]>>

RECURSIVE ArrayJoin(_, _)
ArrayJoin(arr, sep) ==
  IF arr = <<>> THEN <<>>
  ELSE IF Len(arr) = 1 THEN NumberToString(arr[1])
  ELSE NumberToString(arr[1]) \o <<sep>> \o ArrayJoin(Tail(arr), sep)

(***************************************************************************)
(* IEEE-754 double arithmetic of the luma, 0.299*r + 0.587*g + 0.114*b.    *)
(* A non-negative double is held exactly, as the multiple of 2^-56 (the    *)
(* unit of the smallest coefficient, 0.114) it is, written in four limbs   *)
(* of 20 bits, least significant first.  A product and a sum are computed  *)
(* exactly and then rounded to 53 significant bits, a tie going to the     *)
(* even significand, as the hardware does.  Every value here is below 2^65 *)
(* and so loses at most 12 bits, all of the lowest limb.                   *)
(***************************************************************************)
LimbBase == 2 ^ 20

\* limbs brought back under LimbBase, the excess carried upward
LimbsCarry(l) ==
  LET c1 == l[1] \div LimbBase
      c2 == (l[2] + c1) \div LimbBase
      c3 == (l[3] + c2) \div LimbBase
  IN <<l[1] % LimbBase, (l[2] + c1) % LimbBase, (l[3] + c2) % LimbBase, l[4] + c3>>

LimbsTimes(l, k) == LimbsCarry(<<l[1] * k, l[2] * k, l[3] * k, l[4] * k>>)

LimbsPlus(a, b) == LimbsCarry(<<a[1] + b[1], a[2] + b[2], a[3] + b[3], a[4] + b[4]>>)

\* number of significant bits of a limb
BitLength(k) == CHOOSE len \in 0..31 : k < 2 ^ len /\ (len = 0 \/ k >= 2 ^ (len - 1))

LimbsBitLength(l) ==
  IF l[4] > 0 THEN 60 + BitLength(l[4])
  ELSE IF l[3] > 0 THEN 40 + BitLength(l[3])
  ELSE IF l[2] > 0 THEN 20 + BitLength(l[2])
  ELSE BitLength(l[1])

\* round to nearest, ties to even, at 53 significant bits
DoubleRound(l) ==
  LET drop == LimbsBitLength(l) - 53
  IN IF drop <= 0 THEN l
     ELSE LET unit == 2 ^ drop
              kept == l[1] \div unit
              rest == l[1] % unit
              up == rest > unit \div 2 \/ (rest = unit \div 2 /\ kept % 2 = 1)
          IN LimbsCarry(<<(kept + (IF up THEN 1 ELSE 0)) * unit, l[2], l[3], l[4]>>)

DoubleTimes(c, k) == DoubleRound(LimbsTimes(c, k))

DoublePlus(a, b) == DoubleRound(LimbsPlus(a, b))

\* Math.round of a double: floor(x + 1/2), exactly
DoubleMathRound(l) ==
  LET sum == LimbsCarry(<<l[1], l[2], l[3] + 2 ^ 15, l[4]>>)
  IN sum[3] \div 2 ^ 16 + sum[4] * 2 ^ 4

\* the doubles nearest 0.299, 0.587 and 0.114:
\*   0x1322D0E5604189 * 2^-54, 0x12C8B439581062 * 2^-53, 0x1D2F1A9FBE76C9 * 2^-56
Double0299 == LimbsTimes(<<\H04189, \HD0E56, \H01322, 0>>, 4)

Double0587 == LimbsTimes(<<\H81062, \HB4395, \H012C8, 0>>, 8)

Double0114 == <<\HE76C9, \H1A9FB, \H01D2F, 0>>

(***************************************************************************)
(* The chromaticity converter, cie-rgb-converter.js, of which the codec    *)
(* source holds only the call.  RGB decode is modelled on messages whose   *)
(* color carries no x or y (those RGB encode emits, and {}): the           *)
(* arithmetic on an undefined coordinate gives no number in any channel,   *)
(* and an out-of-range channel is clamped to 0.                            *)
(***************************************************************************)
cie_to_rgb(x, y, brightness) ==
  CASE x.t = "undefined" \/ y.t = "undefined" -> <<0, 0, 0>>

(***************************************************************************)
(* properties.RGB                                                          *)
(***************************************************************************)
\* luma with the green and blue channels exchanged
RGB_luma_swapped(rgb) ==
  DoubleMathRound(
    DoublePlus(DoublePlus(DoubleTimes(Double0299, ToNumber(rgb[1])),
                          DoubleTimes(Double0587, ToNumber(rgb[3]))),
               DoubleTimes(Double0114, ToNumber(rgb[2]))))

RGB_luma(rgb) ==
  DoubleMathRound(
    DoublePlus(DoublePlus(DoubleTimes(Double0299, ToNumber(rgb[1])),
                          DoubleTimes(Double0587, ToNumber(rgb[2]))),
               DoubleTimes(Double0114, ToNumber(rgb[3]))))

RGB_encode(message) ==
  LET rgb == StringSplit(message.s, ",")
      brightness == RGB_luma(rgb)
  IN JSON_stringify([EmptyObject EXCEPT
                       !.state = Str(IF brightness # 0 THEN ON ELSE OFF),
                       !.brightness = Num(brightness),
                       !.color = ObjRGB(ToNumber(rgb[1]), ToNumber(rgb[2]), ToNumber(rgb[3]))])

\* RGB decode guarded by color.x, not by color
RGB_decode_calls_guard_x(message) ==
  LET msg == JSON_parse(message)
  IN IF Truthy(msg.color) /\ Truthy(Lift(msg.color.x))
     THEN << <<Lift(msg.color.x), Lift(msg.color.y), msg.brightness>> >>
     ELSE <<>>

\* the arguments of the calls of conv.cie_to_rgb that RGB decode makes
RGB_decode_calls(message) ==
  LET msg == JSON_parse(message)
  IN IF Truthy(msg.color)
     THEN << <<Lift(msg.color.x), Lift(msg.color.y), msg.brightness>> >>
     ELSE <<>>

RGB_decode(message) ==
  LET calls == RGB_decode_calls(message)
  IN IF calls # <<>>
     THEN Str(ArrayJoin(cie_to_rgb(calls[1][1], calls[1][2], calls[1][3]), ","))
     ELSE Undef

(***************************************************************************)
(* The bundle init returns.  Its object literal holds, in this order, two  *)
(* method definitions that are both written "function(message, info,       *)
(* output) {...}", so both are methods under the property name "function", *)
(* and the property "properties"; a later definition of a name replaces an *)
(* earlier one.                                                            *)
(***************************************************************************)
BundleLiteral ==
  <<[key |-> "function", value |-> "encode() called"],
    [key |-> "function", value |-> "decode() called"],
    [key |-> "properties", value |-> "properties"]>>

BundleKeys == {BundleLiteral[i].key : i \in 1..Len(BundleLiteral)}

\* bundle[name]: the value of the last definition of the name, else undefined
BundleGet(name) ==
  IF name \in BundleKeys
  THEN LET last == CHOOSE i \in 1..Len(BundleLiteral) :
                     /\ BundleLiteral[i].key = name
                     /\ \A j \in (i + 1)..Len(BundleLiteral) : BundleLiteral[j].key # name
       IN BundleLiteral[last].value
  ELSE "undefined"

\* the two generic functions: each logs its own line and calls output(message)
GenericFunctions == {"encode() called", "decode() called"}

(***************************************************************************)
(* The values the host hands to the codec.                                 *)
(***************************************************************************)
\* channels of the RGB strings: every ChannelStep-th value of 0..255 and the ends
ChannelStep == 17

Channels == {c \in 0..255 : c % ChannelStep = 0} \cup {1, 254, 255}

AppOn == {Bool(TRUE), Bool(FALSE)}

AppBrightness == {Num(v) : v \in 0..AppBrightnessMax}

AppColorTemperature == {Num(v) : v \in zigbeeMin..zigbeeMax}

AppRGB == {Str(ArrayJoin(<<r, g, b>>, ",")) : r \in Channels, g \in Channels, b \in Channels}

\* falsy values a JSON member can hold: null, false, 0, ""
FalsyJSON == {Null, Bool(FALSE), Num(0), Str(<<>>)}

InboundState == {Undef, Str(ON), Str(OFF)} \cup FalsyJSON

InboundBrightness == {Undef, Num(1), Num(127), Num(254)} \cup FalsyJSON

InboundColorTemp == {Undef, Num(ikeaMin), Num(ikeaMax)} \cup FalsyJSON

InboundColor == {Undef, ObjEmpty, ObjRGB(255, 0, 0)} \cup FalsyJSON

\* messages received from the transport: every combination of the members
\* above, and {"color_temp": w} for every w of the vendor range
Inbound ==
  {JSON_stringify([state |-> st, brightness |-> br, color_temp |-> ct, color |-> co]) :
     st \in InboundState, br \in InboundBrightness, ct \in InboundColorTemp, co \in InboundColor}
  \cup {JSON_stringify([EmptyObject EXCEPT !.color_temp = Num(w)]) : w \in ikeaMin..ikeaMax}

\* the names under which the host calls a generic function of the bundle
EntryNames == {"encode", "decode", "function"}

GenericMessages == {Str(ON), Str(<<>>)}

(***************************************************************************)
(* The state machine: one action per function of the bundle.  One message  *)
(* is in flight at a time: the host encodes a value or receives a message  *)
(* when none is, and decodes the one in flight as any of the properties.   *)
(***************************************************************************)
Init ==
  /\ op = "init"
  /\ sent = Undef
  /\ origin = <<>>
  /\ wire = <<>>
  /\ wireFrom = "none"
  /\ result = Undef
  /\ convCalls = <<>>
  /\ logged = <<"Tradfri codec initialized">>
  /\ entry = "none"
  /\ given = Undef
  /\ delivered = <<>>
  /\ threw = FALSE

\* a property encode: the value sent, the message put in flight
Encoded(name, value, from, text, lines) ==
  /\ op' = name
  /\ sent' = value
  /\ origin' = from
  /\ wire' = text
  /\ wireFrom' = name
  /\ result' = Undef
  /\ convCalls' = <<>>
  /\ logged' = lines
  /\ entry' = "none"
  /\ given' = Undef
  /\ delivered' = <<>>
  /\ threw' = FALSE

\* a property decode of the message in flight
Decoded(name, value, calls, lines) ==
  /\ wireFrom # "none"
  /\ op' = name
  /\ result' = value
  /\ convCalls' = calls
  /\ logged' = lines
  /\ entry' = "none"
  /\ given' = Undef
  /\ delivered' = <<>>
  /\ threw' = FALSE
  /\ UNCHANGED <<sent, origin, wire, wireFrom>>

OnEncode ==
  /\ wireFrom = "none"
  /\ \E v \in AppOn : Encoded("on.encode", v, <<>>, on_encode(v), <<>>)

OnDecode == Decoded("on.decode", on_decode(wire), <<>>, <<>>)

BrightnessEncode ==
  /\ wireFrom = "none"
  /\ \E v \in AppBrightness :
       Encoded("brightness.encode", v, <<>>, brightness_encode(v), <<>>)

BrightnessDecode == Decoded("brightness.decode", brightness_decode(wire), <<>>, <<>>)

ColorTemperatureEncode ==
  /\ wireFrom = "none"
  /\ \E v \in AppColorTemperature :
       Encoded("colorTemperature.encode", v, <<>>, colorTemperature_encode(v), <<>>)

\* the host sets the colour temperature it was last told
ColorTemperatureEncodeDecoded ==
  /\ op = "colorTemperature.decode"
  /\ result \in AppColorTemperature
  /\ Encoded("colorTemperature.encode", result, <<wire>>, colorTemperature_encode(result), <<>>)

ColorTemperatureDecode ==
  Decoded("colorTemperature.decode", colorTemperature_decode(wire), <<>>, <<>>)

RGBEncode ==
  /\ wireFrom = "none"
  /\ \E v \in AppRGB :
       Encoded("RGB.encode", v, <<>>, RGB_encode(v),
               <<"RGB encode request", "RGB encode response">>)

RGBDecode ==
  Decoded("RGB.decode", RGB_decode(wire), RGB_decode_calls(wire), <<"RGB decode request">>)

\* a message arrives from the transport
Receive ==
  /\ wireFrom = "none"
  /\ \E m \in Inbound :
       /\ op' = "receive"
       /\ sent' = Undef
       /\ origin' = <<>>
       /\ wire' = m
       /\ wireFrom' = "inbound"
       /\ result' = Undef
       /\ convCalls' = <<>>
       /\ logged' = <<>>
       /\ entry' = "none"
       /\ given' = Undef
       /\ delivered' = <<>>
       /\ threw' = FALSE

\* the host is done with the message in flight; the codec retains nothing
Done ==
  /\ wireFrom # "none"
  /\ op' = "done"
  /\ sent' = Undef
  /\ origin' = <<>>
  /\ wire' = <<>>
  /\ wireFrom' = "none"
  /\ result' = Undef
  /\ convCalls' = <<>>
  /\ logged' = <<>>
  /\ entry' = "none"
  /\ given' = Undef
  /\ delivered' = <<>>
  /\ threw' = FALSE

\* the host calls bundle[name](message, info, output): a generic function logs
\* and calls output(message); calling anything else is a TypeError
CallGeneric ==
  \E name \in EntryNames, message \in GenericMessages :
    LET f == BundleGet(name)
    IN /\ op' = "call"
       /\ entry' = name
       /\ given' = message
       /\ logged' = IF f \in GenericFunctions THEN <<f>> ELSE <<>>
       /\ delivered' = IF f \in GenericFunctions THEN <<message>> ELSE <<>>
       /\ threw' = (f \notin GenericFunctions)
       /\ result' = Undef
       /\ convCalls' = <<>>
       /\ UNCHANGED <<sent, origin, wire, wireFrom>>

Next ==
  \/ OnEncode
  \/ OnDecode
  \/ BrightnessEncode
  \/ BrightnessDecode
  \/ ColorTemperatureEncode
  \/ ColorTemperatureEncodeDecoded
  \/ ColorTemperatureDecode
  \/ RGBEncode
  \/ RGBDecode
  \/ Receive
  \/ Done
  \/ CallGeneric

Spec == Init /\ [][Next]_vars

(***************************************************************************)
(* Properties.                                                             *)
(***************************************************************************)
Abs(k) == IF k < 0 THEN -k ELSE k

\* the message in flight, parsed
Msg == JSON_parse(wire)

\* the channels of an "r,g,b" string
ChannelsOf(v) ==
  LET parts == StringSplit(v.s, ",")
  IN [i \in 1..Len(parts) |-> ToNumber(parts[i])]

\* a decode has just read the message the encode of the same property produced
RoundTrip(property) == op = property \o ".decode" /\ wireFrom = property \o ".encode"

\* wire-side brightness is 0..254
WireBrightnessMax == 254

\* C1: for every v in 140..500, the colorTemperature decode of the message the
\* colorTemperature encode of v produced is an integer within 1 of v, never
\* undefined.
C1_ColorTemperatureRoundTrip ==
  RoundTrip("colorTemperature") =>
    /\ result.t = "number"
    /\ Abs(result.n - sent.n) <= 1

\* 141 is sent as 251, which is decoded as 142
C1_Witness ==
  /\ RoundTrip("colorTemperature")
  /\ sent = Num(141)
  /\ result = Num(142)

\* C2: for every v in 1..100, the brightness decode of the message the
\* brightness encode of v produced is an integer within 1 of v; for v = 0 the
\* decode returns undefined.
C2_BrightnessRoundTrip ==
  RoundTrip("brightness") =>
    IF sent.n = 0
    THEN result = Undef
    ELSE result.t = "number" /\ Abs(result.n - sent.n) <= 1

C2_Witness ==
  /\ RoundTrip("brightness")
  /\ sent = Num(50)
  /\ Msg.brightness = Num(127)
  /\ result = Num(50)

\* C3: for both booleans b, the on decode of the message the on encode of b
\* produced is exactly b, never undefined.
C3_OnRoundTrip == RoundTrip("on") => result = sent

C3_Witness ==
  /\ RoundTrip("on")
  /\ sent = Bool(FALSE)
  /\ Msg.state = Str(OFF)
  /\ result = Bool(FALSE)

C5_OutboundBrightnessRange ==
  op \in {"brightness.encode", "RGB.encode"} =>
    /\ Msg.brightness.t = "number"
    /\ Msg.brightness.n \in 0..WireBrightnessMax

\* C6: for each of the four properties, the decode of a message whose own
\* field (state, brightness, color_temp, color) is missing, falsy or zero
\* returns undefined and raises no error, whatever the other fields are.
C6_FalsyFieldDecodesUndefined ==
  /\ (op = "on.decode" /\ ~Truthy(Msg.state)) => (result = Undef /\ ~threw)
  /\ (op = "brightness.decode" /\ ~Truthy(Msg.brightness)) => (result = Undef /\ ~threw)
  /\ (op = "colorTemperature.decode" /\ ~Truthy(Msg.color_temp)) => (result = Undef /\ ~threw)
  /\ (op = "RGB.decode" /\ ~Truthy(Msg.color)) =>
       (result = Undef /\ ~threw /\ convCalls = <<>>)

\* an inbound message with state null and every other field set, decoded as on
C6_Witness ==
  /\ op = "on.decode"
  /\ wireFrom = "inbound"
  /\ Msg.state = Null
  /\ Msg.brightness = Num(254)
  /\ Msg.color_temp = Num(ikeaMax)
  /\ Msg.color = ObjEmpty
  /\ result = Undef

\* C7: the bundle exposes a generic encode and a generic decode next to
\* properties, and each call of either invokes the output callback exactly
\* once, before the call returns, with the message it was given unchanged.
C7_GenericEntryPointsForward ==
  (op = "call" /\ entry \in {"encode", "decode"}) =>
    /\ entry \in BundleKeys
    /\ ~threw
    /\ delivered = <<given>>

\* C8: for every v in 140..500 the colorTemperature encode emits
\* round((v - 140) * 204 / 360 + 250), the integer nearest that quotient, which
\* lies in 250..454; 140 gives 250 and 500 gives 454.
C8_ColorTemperatureEncode ==
  op = "colorTemperature.encode" =>
    /\ Msg.color_temp.t = "number"
    /\ 2 * Abs((Msg.color_temp.n - 250) * 360 - (sent.n - 140) * 204) <= 360
    /\ Msg.color_temp.n \in 250..454
    /\ (sent.n = 140 => Msg.color_temp.n = 250)
    /\ (sent.n = 500 => Msg.color_temp.n = 454)

C8_Witness ==
  /\ op = "colorTemperature.encode"
  /\ sent = Num(500)
  /\ Msg.color_temp = Num(454)

\* C9: for every "r,g,b" with channels in 0..255 the RGB encode emits
\* brightness round(0.299*r + 0.587*g + 0.114*b), an integer nearest that luma,
\* state "ON" exactly when that brightness is not zero, and color {r, g, b}
\* equal to the channels given; "255,0,0" gives brightness 76, state "ON" and
\* color {r: 255, g: 0, b: 0}.
C9_RGBEncode ==
  op = "RGB.encode" =>
    LET c == ChannelsOf(sent)
    IN /\ Msg.brightness.t = "number"
       /\ 2 * Abs(1000 * Msg.brightness.n - (299 * c[1] + 587 * c[2] + 114 * c[3])) <= 1000
       /\ Msg.state = Str(IF Msg.brightness.n # 0 THEN ON ELSE OFF)
       /\ Msg.color = ObjRGB(c[1], c[2], c[3])
       /\ (c = <<255, 0, 0>> => Msg.brightness.n = 76)

C9_Witness ==
  /\ op = "RGB.encode"
  /\ sent = Str(<<"2", "5", "5", ",", "0", ",", "0">>)
  /\ Msg.brightness = Num(76)
  /\ Msg.state = Str(ON)
  /\ Msg.color = ObjRGB(255, 0, 0)

\* C10: for every w in 250..454, the colorTemperature encode of the value the
\* colorTemperature decode of a message with color_temp w returned emits
\* color_temp w again.
C10_ColorTemperatureWireRoundTrip ==
  (/\ op = "colorTemperature.encode"
   /\ origin # <<>>
   /\ JSON_parse(origin[1]).color_temp.n \in ikeaMin..ikeaMax)
    => Msg.color_temp = JSON_parse(origin[1]).color_temp

\* 263 is decoded as 163, which is sent as 263
C10_Witness ==
  /\ op = "colorTemperature.encode"
  /\ origin = <<JSON_stringify([EmptyObject EXCEPT !.color_temp = Num(263)])>>
  /\ sent = Num(163)
  /\ Msg.color_temp = Num(263)

====
